---- MODULE Spec2Model ----
(***************************************************************************)
(* The subscription registry `Cable` of actioncable-vue-jwt (src/cable.js) *)
(* as a state machine: the transport consumer, the handler-bundle map      *)
(* (_channels), the transport-subscription map (_channels.subscriptions),  *)
(* the context map (_contexts), and one action per method.                 *)
(***************************************************************************)
EXTENDS Naturals, Sequences, FiniteSets

(* ------------------------------ bounds --------------------------------- *)

\* Transport subscriptions that subscribe() may create in one run.
MaxHandles == 2

(* --------------------------- input domains ----------------------------- *)

\* Logical channel names other than the reserved key 'subscriptions'.
Names == {"ChatChannel", "a"}
\* Component identities (Vue's _uid).
Uids == {1, 2}
\* The four lifecycle notifications of a transport subscription.
Kinds == {"connected", "disconnected", "rejected", "received"}
\* The callbacks the handler bundles of a component define: component 1
\* declares all four, component 2 only `received`.
CallbacksOf(uid) == IF uid = 1 THEN Kinds ELSE {"received"}
\* Channel descriptors handed to subscribe().
Descriptors == {[channel |-> "ChatChannel", room |-> "public"]}
ActionNames == {"send_message"}
Payloads == {"hi"}

(* JavaScript values, tagged with their typeof-relevant kind. *)
NULL == [t |-> "null", v |-> ""]
UNDEFINED == [t |-> "undefined", v |-> ""]
Str(s) == [t |-> "string", v |-> s]
Fn(ret) == [t |-> "function", v |-> ret]

ValidUrl == "ws://localhost:5000/api/cable"
UrlValues == {Str(ValidUrl), Str(""), NULL, UNDEFINED, [t |-> "number", v |-> "42"]}
Token == "jwt1"
JwtValues == {UNDEFINED, Fn(Token)}
NameArgs == {UNDEFINED} \cup {Str(n) : n \in Names}

\* typeof x
TypeOf(x) == IF x.t = "null" THEN "object" ELSE x.t
\* ToBoolean(x) is false
Falsy(x) == x.t \in {"null", "undefined"} \/ (x.t = "string" /\ x.v = "")

(* The three messages of the Errors the code throws itself. *)
MsgNotInitialized == <<"ActionCableVueJWT not initialized.">>
MsgInvalidUrl == <<"Connection URL needs to be a valid Action Cable websocket server URL.">>
MsgNotSubscribed(action, channel) ==
    <<"You need to be subscribed to perform action '", action, "' on channel '", channel, "'.">>

(* ------------------------------- state --------------------------------- *)

VARIABLES
    constructed,    \* the constructor has run (Vue.prototype.$cable is set)
    options,        \* the options the constructor was given
    _cable,         \* the transport consumer, or NULL
    _channels,      \* logical name -> handler bundle [_uid, _name, cbs]
    subscriptions,  \* _channels.subscriptions: logical name -> handle
    _contexts,      \* uid -> [context, users]
    handles,        \* the transport subscriptions created so far
    declared,       \* <<uid, name>> -> "no" | "live" | "gone": the component's channel
    last            \* the last call: its outcome and the external calls it made

vars == <<constructed, options, _cable, _channels, subscriptions, _contexts, handles,
          declared, last>>

\* The three maps of the registry.
maps == <<_channels, subscriptions, _contexts>>

\* The key of _channels under which the registry keeps its subscription map.
Reserved == "subscriptions"

Empty == [k \in {} |-> 0]
Put(f, k, val) == [x \in DOMAIN f \cup {k} |-> IF x = k THEN val ELSE f[x]]
Delete(f, k) == [x \in DOMAIN f \ {k} |-> f[x]]

\* A call that returned normally and called nothing outside the registry.
\*   op, args, name: the method, its arguments, the logical name it resolved
\*   h: the transport subscription involved (0: none)
\*   outcome, msg: "ok", "Error" with its message, or "TypeError" (a runtime crash)
\*   calls: the component callbacks invoked; prims: the transport primitives called
\*   replaced: the handle subscribe() found under the name (0: none)
Call(op, args, name) ==
    [op |-> op, args |-> args, name |-> name, h |-> 0, outcome |-> "ok", msg |-> <<>>,
     calls |-> <<>>, prims |-> <<>>, replaced |-> 0, seen |-> "none"]

Prim(p, h, x) == [p |-> p, h |-> h, x |-> x]

DefaultOptions == [connectionUrl |-> NULL, connectImmediately |-> TRUE, jwt |-> Fn("")]

\* Before `new Cable(Vue, options)` has run.
InitNew ==
    /\ constructed = FALSE
    /\ options = DefaultOptions
    /\ _cable = NULL
    /\ _channels = Empty
    /\ subscriptions = Empty
    /\ _contexts = Empty
    /\ handles = <<>>
    /\ declared = [d \in Uids \X (Names \cup {Reserved}) |-> "no"]
    /\ last = Call("none", <<>>, "")

\* After `new Cable(Vue, {connectionUrl: ValidUrl, connectImmediately: false, jwt})`,
\* the installation the README documents: no consumer yet, empty maps.
Init ==
    /\ constructed = TRUE
    /\ options = [connectionUrl |-> Str(ValidUrl), connectImmediately |-> FALSE,
                  jwt |-> Fn(Token)]
    /\ _cable = NULL
    /\ _channels = Empty
    /\ subscriptions = Empty
    /\ _contexts = Empty
    /\ handles = <<>>
    /\ declared = [d \in Uids \X (Names \cup {Reserved}) |-> "no"]
    /\ last = Call("constructor", <<>>, "")

(* --------------------------- _connect ---------------------------------- *)

\* _connect with `if (url)` for its guard.
_connect_truthy(url, jwt) ==
    IF ~Falsy(url)
    THEN IF jwt.t = "function"
         THEN [cable |-> [t |-> "consumer", url |-> url.v, token |-> jwt.v],
               outcome |-> "ok", msg |-> <<>>,
               prims |-> <<Prim("createConsumer", 0, <<url.v, jwt.v>>)>>]
         ELSE [cable |-> _cable, outcome |-> "TypeError", msg |-> <<>>, prims |-> <<>>]
    ELSE [cable |-> _cable, outcome |-> "Error", msg |-> MsgInvalidUrl, prims |-> <<>>]

\* _connect(url, jwt): the consumer it leaves in _cable and how it ends.
_connect(url, jwt) ==
    IF TypeOf(url) = "string"
    THEN IF jwt.t = "function"
         THEN [cable |-> [t |-> "consumer", url |-> url.v, token |-> jwt.v],
               outcome |-> "ok", msg |-> <<>>,
               prims |-> <<Prim("createConsumer", 0, <<url.v, jwt.v>>)>>]
         ELSE \* jwt() with jwt undefined
              [cable |-> _cable, outcome |-> "TypeError", msg |-> <<>>, prims |-> <<>>]
    ELSE [cable |-> _cable, outcome |-> "Error", msg |-> MsgInvalidUrl, prims |-> <<>>]

\* new Cable(Vue, options): the jwt option is read but not handed to _connect.
Constructor(url, connectImmediately, jwt) ==
    /\ ~constructed
    /\ constructed' = TRUE
    /\ options' = [connectionUrl |-> url, connectImmediately |-> connectImmediately,
                   jwt |-> jwt]
    /\ IF connectImmediately
       THEN LET r == _connect(url, UNDEFINED) IN
            /\ _cable' = r.cable
            /\ last' = [Call("constructor", <<>>, "") EXCEPT
                           !.outcome = r.outcome, !.msg = r.msg, !.prims = r.prims]
       ELSE /\ _cable' = _cable
            /\ last' = Call("constructor", <<>>, "")
    /\ UNCHANGED <<_channels, subscriptions, _contexts, handles, declared>>

\* A direct call of _connect(url, jwt) by the host application.
Connect(url, jwt) ==
    /\ constructed
    /\ LET r == _connect(url, jwt) IN
       /\ _cable' = r.cable
       /\ last' = [Call("_connect", <<url, jwt>>, "") EXCEPT
                      !.outcome = r.outcome, !.msg = r.msg, !.prims = r.prims]
    /\ UNCHANGED <<constructed, options, _channels, subscriptions, _contexts, handles,
                   declared>>

(* --------------------------- subscribe --------------------------------- *)

\* The key taken from the descriptor whatever name is given.
ResolveName_channelOnly(subscription, name) == subscription.channel

\* name || subscription.channel
ResolveName(subscription, name) ==
    IF Falsy(name) THEN subscription.channel ELSE name.v

\* subscribe that keeps the entry a name already has.
subscribe_keepFirst(subscription, name) ==
    /\ constructed
    /\ IF _cable.t = "consumer"
       THEN LET channelName == ResolveName(subscription, name)
                h == Len(handles) + 1
            IN  /\ h <= MaxHandles
                /\ handles' = Append(handles,
                       [channelName |-> channelName, descriptor |-> subscription, released |-> 0])
                /\ subscriptions' = IF channelName \in DOMAIN subscriptions
                                    THEN subscriptions
                                    ELSE Put(subscriptions, channelName, h)
                /\ last' = [Call("subscribe", <<subscription, name>>, channelName) EXCEPT
                               !.h = h,
                               !.prims = <<Prim("create", h, <<subscription>>)>>,
                               !.replaced = IF channelName \in DOMAIN subscriptions
                                            THEN subscriptions[channelName] ELSE 0]
       ELSE /\ last' = [Call("subscribe", <<subscription, name>>, "") EXCEPT
                           !.outcome = "Error", !.msg = MsgNotInitialized]
            /\ UNCHANGED <<handles, subscriptions>>
    /\ UNCHANGED <<constructed, options, _cable, _channels, _contexts, declared>>

subscribe(subscription, name) ==
    /\ constructed
    /\ IF _cable.t = "consumer"
       THEN LET channelName == ResolveName(subscription, name)
                h == Len(handles) + 1
                failed == [Call("subscribe", <<subscription, name>>, channelName) EXCEPT
                              !.outcome = "TypeError"]
            IN  IF subscriptions = UNDEFINED
                THEN \* the target of the assignment is a property of undefined:
                     \* a TypeError, raised before subscriptions.create() runs or
                     \* after it, as the engine orders the two
                     \/ /\ last' = failed
                        /\ UNCHANGED <<handles, subscriptions>>
                     \/ /\ h <= MaxHandles
                        /\ handles' = Append(handles,
                               [channelName |-> channelName, descriptor |-> subscription,
                                released |-> 0])
                        /\ last' = [failed EXCEPT
                                       !.h = h,
                                       !.prims = <<Prim("create", h, <<subscription>>)>>]
                        /\ UNCHANGED subscriptions
                ELSE
                /\ h <= MaxHandles
                /\ handles' = Append(handles,
                       [channelName |-> channelName, descriptor |-> subscription, released |-> 0])
                /\ subscriptions' = Put(subscriptions, channelName, h)
                /\ last' = [Call("subscribe", <<subscription, name>>, channelName) EXCEPT
                               !.h = h,
                               !.prims = <<Prim("create", h, <<subscription>>)>>,
                               !.replaced = IF channelName \in DOMAIN subscriptions
                                            THEN subscriptions[channelName] ELSE 0]
       ELSE /\ last' = [Call("subscribe", <<subscription, name>>, "") EXCEPT
                           !.outcome = "Error", !.msg = MsgNotInitialized]
            /\ UNCHANGED <<handles, subscriptions>>
    /\ UNCHANGED <<constructed, options, _cable, _channels, _contexts, declared>>

(* ---------------------------- perform ---------------------------------- *)

\* perform without its else branch: a missing subscription is passed over.
perform_silent(channel, action, data) ==
    /\ constructed
    /\ IF channel \in DOMAIN subscriptions
       THEN last' = [Call("perform", <<channel, action, data>>, channel) EXCEPT
                        !.h = subscriptions[channel],
                        !.prims = <<Prim("perform", subscriptions[channel], <<action, data>>)>>]
       ELSE last' = Call("perform", <<channel, action, data>>, channel)
    /\ UNCHANGED <<constructed, options, _cable, _channels, subscriptions, _contexts,
                   handles, declared>>

perform(channel, action, data) ==
    /\ constructed
    /\ IF subscriptions = UNDEFINED
       THEN \* this._channels.subscriptions[channel] reads a property of undefined
            last' = [Call("perform", <<channel, action, data>>, channel) EXCEPT
                        !.outcome = "TypeError"]
       ELSE
       IF channel \in DOMAIN subscriptions
       THEN last' = [Call("perform", <<channel, action, data>>, channel) EXCEPT
                        !.h = subscriptions[channel],
                        !.prims = <<Prim("perform", subscriptions[channel], <<action, data>>)>>]
       ELSE last' = [Call("perform", <<channel, action, data>>, channel) EXCEPT
                        !.outcome = "Error", !.msg = MsgNotSubscribed(action, channel)]
    /\ UNCHANGED <<constructed, options, _cable, _channels, subscriptions, _contexts,
                   handles, declared>>

(* ----------------------- event dispatch -------------------------------- *)

\* if (channel.<kind>) channel.<kind>.call(this._contexts[channel._uid].context, ...args)
Invoke(channel, kind, args) ==
    IF kind \in channel.cbs
    THEN IF channel._uid \in DOMAIN _contexts
         THEN [outcome |-> "ok",
               calls |-> <<[bundle |-> channel, kind |-> kind,
                            this |-> _contexts[channel._uid].context, args |-> args]>>]
         ELSE \* .context of undefined
              [outcome |-> "TypeError", calls |-> <<>>]
    ELSE [outcome |-> "ok", calls |-> <<>>]

_channelConnected(channel) == Invoke(channel, "connected", <<>>)
_channelDisconnected(channel) == Invoke(channel, "disconnected", <<>>)
_subscriptionRejected(channel) == Invoke(channel, "rejected", <<>>)
\* _channelReceived that calls received without the data.
_channelReceived_noData(channel, data) == Invoke(channel, "received", <<>>)

_channelReceived(channel, data) == Invoke(channel, "received", <<data>>)

\* callback.call(this, channel, data), callback being the method for `kind`
Callback(kind, channel, data) ==
    CASE kind = "connected" -> _channelConnected(channel)
      [] kind = "disconnected" -> _channelDisconnected(channel)
      [] kind = "rejected" -> _subscriptionRejected(channel)
      [] kind = "received" -> _channelReceived(channel, data)

\* _fireChannelEvent without the hasOwnProperty test: the callback reads a
\* property of undefined.
_fireChannelEvent_unguarded(channelName, kind, data) ==
    IF channelName \in DOMAIN _channels
    THEN Callback(kind, _channels[channelName], data)
    ELSE [outcome |-> "TypeError", calls |-> <<>>]

\* The subscription map taken for a HandlerBundle: it has handles for
\* properties, no callback and no _uid.
MapAsChannel == [_uid |-> 0, _name |-> "", cbs |-> {}]

\* hasOwnProperty(channelName) on _channels: a registered bundle, or the
\* subscription map itself under the reserved key.
_fireChannelEvent(channelName, kind, data) ==
    IF channelName \in DOMAIN _channels
    THEN Callback(kind, _channels[channelName], data)
    ELSE IF channelName = Reserved /\ subscriptions # UNDEFINED
         THEN Callback(kind, MapAsChannel, data)
         ELSE [outcome |-> "ok", calls |-> <<>>]

\* Adapters that keep connection state: a rejection drops the subscription entry.
Notify_tracking(h, kind, data) ==
    /\ h \in 1..Len(handles)
    /\ LET r == _fireChannelEvent(handles[h].channelName, kind, data) IN
       last' = [Call(kind, <<data>>, handles[h].channelName) EXCEPT
                   !.h = h, !.outcome = r.outcome, !.calls = r.calls]
    /\ subscriptions' = IF kind = "rejected"
                        THEN Delete(subscriptions, handles[h].channelName)
                        ELSE subscriptions
    /\ UNCHANGED <<constructed, options, _cable, _channels, _contexts, handles, declared>>

\* Adapters that dispatch under subscription.channel instead of channelName.
Notify_byServerChannel(h, kind, data) ==
    /\ h \in 1..Len(handles)
    /\ LET r == _fireChannelEvent(handles[h].descriptor.channel, kind, data) IN
       last' = [Call(kind, <<data>>, handles[h].channelName) EXCEPT
                   !.h = h, !.outcome = r.outcome, !.calls = r.calls]
    /\ UNCHANGED <<constructed, options, _cable, _channels, subscriptions, _contexts,
                   handles, declared>>

\* The transport invokes one of the four adapter callbacks subscribe() gave it
\* for handle h; each closes over the channelName subscribe() resolved.
Notify(h, kind, data) ==
    /\ h \in 1..Len(handles)
    /\ LET r == _fireChannelEvent(handles[h].channelName, kind, data) IN
       last' = [Call(kind, <<data>>, handles[h].channelName) EXCEPT
                   !.h = h, !.outcome = r.outcome, !.calls = r.calls]
    /\ UNCHANGED <<constructed, options, _cable, _channels, subscriptions, _contexts,
                   handles, declared>>

(* ----------------------- component attachment -------------------------- *)

_addContext(uid) ==
    IF uid \notin DOMAIN _contexts
    THEN Put(_contexts, uid, [context |-> uid, users |-> 1])
    ELSE [_contexts EXCEPT ![uid].users = @ + 1]

_addChannel(name, cbs, uid) ==
    /\ constructed
    /\ _channels' = Put(_channels, name, [_uid |-> uid, _name |-> name, cbs |-> cbs])
    /\ _contexts' = _addContext(uid)
    /\ last' = Call("_addChannel", <<name, cbs, uid>>, name)
    \* under the reserved key the bundle takes the place of the subscription map
    /\ subscriptions' = IF name = Reserved THEN Empty ELSE subscriptions
    /\ UNCHANGED <<constructed, options, _cable, handles>>

\* The component-lifecycle hook: a component hands each channel it declares to
\* _addChannel once, when it is created.
created(name, uid) ==
    /\ declared[<<uid, name>>] = "no"
    /\ declared' = [declared EXCEPT ![<<uid, name>>] = "live"]
    /\ _addChannel(name, CallbacksOf(uid), uid)

(* --------------------------- unsubscribe ------------------------------- *)

\* A release that deletes the ContextEntry whatever its users count.
ReleaseContext_eager(uid) == Delete(_contexts, uid)

\* --this._contexts[uid].users; if (users <= 0) delete this._contexts[uid]
ReleaseContext(uid) ==
    IF _contexts[uid].users - 1 <= 0
    THEN Delete(_contexts, uid)
    ELSE [_contexts EXCEPT ![uid].users = @ - 1]

\* How the three maps stand at a point where _removeChannel hands control to
\* external code, against the maps of before the call and those it leaves.
Seen(at, before, after) ==
    IF at = before THEN "before" ELSE IF at = after THEN "after" ELSE "partial"

\* The maps when the handle's unsubscribe primitive runs, had the bundle been
\* deleted first.
AtRelease_afterDelete(name) == <<Delete(_channels, name), subscriptions, _contexts>>

\* The maps when the handle's unsubscribe primitive runs: the statements before
\* it only read.
AtRelease(name) == <<_channels, subscriptions, _contexts>>

_removeChannel(name) ==
    IF \/ name \notin DOMAIN _channels /\ name # Reserved
       \/ subscriptions = UNDEFINED
       \/ name \notin DOMAIN subscriptions
    THEN \* ._uid, or .unsubscribe(), of undefined: nothing has been changed yet
         /\ last' = [Call("unsubscribe", <<name>>, name) EXCEPT !.outcome = "TypeError"]
         /\ UNCHANGED <<_channels, subscriptions, _contexts, handles>>
    ELSE IF name = Reserved
    THEN \* delete this._channels[name] removes the subscription map itself, and
         \* the delete that follows reads a property of undefined
         LET h == subscriptions[name] IN
         /\ handles' = [handles EXCEPT ![h].released = @ + 1]
         /\ _channels' = Delete(_channels, name)
         /\ subscriptions' = UNDEFINED
         /\ _contexts' = _contexts
         /\ last' = [Call("unsubscribe", <<name>>, name) EXCEPT
                        !.h = h, !.prims = <<Prim("unsubscribe", h, <<>>)>>,
                        !.seen = Seen(AtRelease(name), maps, maps'),
                        !.outcome = "TypeError"]
    ELSE LET uid == _channels[name]._uid
             h == subscriptions[name]
             done == [Call("unsubscribe", <<name>>, name) EXCEPT
                         !.h = h, !.prims = <<Prim("unsubscribe", h, <<>>)>>,
                         !.seen = Seen(AtRelease(name), maps, maps')]
         IN  /\ handles' = [handles EXCEPT ![h].released = @ + 1]
             /\ _channels' = Delete(_channels, name)
             /\ subscriptions' = Delete(subscriptions, name)
             /\ IF uid \in DOMAIN _contexts
                THEN /\ _contexts' = ReleaseContext(uid)
                     /\ last' = done
                ELSE \* .users of undefined, after the two deletes
                     /\ _contexts' = _contexts
                     /\ last' = [done EXCEPT !.outcome = "TypeError"]

\* The public operation, called by application code.
unsubscribe(channelName) ==
    /\ constructed
    /\ _removeChannel(channelName)
    /\ UNCHANGED <<constructed, options, _cable, declared>>

\* The component-lifecycle hook: a component that is destroyed unsubscribes each
\* channel it declared.
beforeDestroy(name, uid) ==
    /\ declared[<<uid, name>>] = "live"
    /\ declared' = [declared EXCEPT ![<<uid, name>>] = "gone"]
    /\ _removeChannel(name)
    /\ UNCHANGED <<constructed, options, _cable>>

(* ------------------------------ Next ----------------------------------- *)

\* The registry in use. The host connects it by calling _connect(url, jwt) itself.
Next ==
    \/ \E url \in {Str(ValidUrl), NULL} : Connect(url, Fn(Token))
    \/ \E d \in Descriptors, n \in NameArgs : subscribe(d, n)
    \/ \E n \in Names, a \in ActionNames, p \in Payloads : perform(n, a, p)
    \/ \E h \in 1..MaxHandles, k \in Kinds, p \in Payloads : Notify(h, k, p)
    \/ \E n \in Names, u \in Uids : created(n, u)
    \/ \E n \in Names : unsubscribe(n)
    \/ \E n \in Names, u \in Uids : beforeDestroy(n, u)

Spec == Init /\ [][Next]_vars

\* The registry from its construction on, driven only through the constructor,
\* the component hooks and the three public operations.
NextBoot ==
    \/ \E url \in UrlValues, ci \in BOOLEAN, jwt \in JwtValues : Constructor(url, ci, jwt)
    \/ \E d \in Descriptors, n \in NameArgs : subscribe(d, n)
    \/ \E n \in Names, a \in ActionNames, p \in Payloads : perform(n, a, p)
    \/ \E n \in Names, u \in Uids : created(n, u)
    \/ \E n \in Names : unsubscribe(n)
    \/ \E n \in Names, u \in Uids : beforeDestroy(n, u)

SpecBoot == InitNew /\ [][NextBoot]_vars

\* Connection attempts with every kind of url and token function, and the
\* subscriptions that follow them; no component declares a channel.
NextConnect ==
    \/ \E url \in UrlValues, jwt \in JwtValues : Connect(url, jwt)
    \/ \E d \in Descriptors, n \in NameArgs : subscribe(d, n)
    \/ \E n \in Names, a \in ActionNames, p \in Payloads : perform(n, a, p)
    \/ \E h \in 1..MaxHandles, k \in Kinds, p \in Payloads : Notify(h, k, p)
    \/ \E n \in Names : unsubscribe(n)

SpecConnect == Init /\ [][NextConnect]_vars

\* The registry used with a channel whose logical name is the reserved key.
ReservedNames == {Reserved, "a"}

NextReserved ==
    \/ Connect(Str(ValidUrl), Fn(Token))
    \/ \E d \in Descriptors, n \in ReservedNames : subscribe(d, Str(n))
    \/ \E n \in ReservedNames, a \in ActionNames, p \in Payloads : perform(n, a, p)
    \/ \E h \in 1..MaxHandles, k \in Kinds, p \in Payloads : Notify(h, k, p)
    \/ \E n \in ReservedNames, u \in Uids : created(n, u)
    \/ \E n \in ReservedNames : unsubscribe(n)
    \/ \E n \in ReservedNames, u \in Uids : beforeDestroy(n, u)

SpecReserved == Init /\ [][NextReserved]_vars

(* ============================ properties =============================== *)

(* The error kinds of the specification, read off what the code throws. *)
IsNotInitializedError(c) == c.outcome = "Error" /\ c.msg = MsgNotInitialized
IsConfigurationError(c) == c.outcome = "Error" /\ c.msg = MsgInvalidUrl
IsNotSubscribedError(c) ==
    /\ c.outcome = "Error"
    /\ c.msg # <<>>
    /\ c.msg[1] = "You need to be subscribed to perform action '"
Mentions(msg, x) == \E i \in 1..Len(msg) : msg[i] = x

\* The names whose registered HandlerBundle is tagged with uid u.
RegisteredFor(u) == {n \in DOMAIN _channels : _channels[n]._uid = u}
\* The components that declared name n and have not been destroyed.
LiveDeclarers(n) == {u \in Uids : declared[<<u, n>>] = "live"}

(* C1: in every reachable state, for every component uid, a ContextEntry     *)
(* exists iff some registered HandlerBundle is tagged with that uid, and its *)
(* users count equals the number of registered HandlerBundles so tagged.     *)
C1_ContextMatchesBundles ==
    \A u \in Uids :
        /\ u \in DOMAIN _contexts <=> RegisteredFor(u) # {}
        /\ u \in DOMAIN _contexts => _contexts[u].users = Cardinality(RegisteredFor(u))

(* C2: when two components have declared the same name n and a transport     *)
(* subscription is registered under n, the unsubscribe(n) made for the       *)
(* destruction of one of them, while the other still lives, releases no      *)
(* transport subscription and keeps the subscription and the HandlerBundle   *)
(* registered under n.                                                       *)
C2_SharedChannelSurvives ==
    [][\A n \in Names, u \in Uids :
          ( /\ declared[<<u, n>>] = "live"
            /\ declared'[<<u, n>>] = "gone"
            /\ LiveDeclarers(n) \ {u} # {}
            /\ n \in DOMAIN subscriptions )
          => ( /\ n \in DOMAIN subscriptions'
               /\ subscriptions'[n] = subscriptions[n]
               /\ handles' = handles
               /\ n \in DOMAIN _channels' )]_vars

\* The subscription map as it was before the subscribe() recorded in `last`.
BeforeLastSubscribe ==
    IF last.replaced = 0
    THEN Delete(subscriptions, last.name)
    ELSE Put(subscriptions, last.name, last.replaced)

(* C3: subscribe(d, n) on a connected consumer followed by unsubscribe(n)    *)
(* leaves the handler-bundle map, the subscription map and the context map   *)
(* equal to what they were before the subscribe.                             *)
C3_SubscribeUnsubscribeRestores ==
    [][( /\ last.op = "subscribe"
         /\ last.outcome = "ok"
         /\ last'.op = "unsubscribe"
         /\ last'.name = last.name )
       => ( /\ _channels' = _channels
            /\ _contexts' = _contexts
            /\ subscriptions' = BeforeLastSubscribe )]_vars

(* C4: unsubscribe(name) with no HandlerBundle or no transport subscription  *)
(* registered under name fails with NotSubscribedError, not with a crash of  *)
(* the runtime, and leaves the three maps unchanged.                         *)
C4_UnsubscribeMissingIsNotSubscribedError ==
    [][( /\ last'.op = "unsubscribe"
         /\ \/ last'.name \notin DOMAIN _channels
            \/ last'.name \notin DOMAIN subscriptions )
       => ( /\ IsNotSubscribedError(last')
            /\ Mentions(last'.msg, last'.name)
            /\ UNCHANGED maps )]_vars

(* C5: perform on a channel name with no transport subscription registered   *)
(* fails with NotSubscribedError whose message names the action and the      *)
(* channel, calls no transport primitive and no callback, and leaves the     *)
(* three maps unchanged.                                                     *)
C5_PerformNotSubscribed ==
    [][( /\ last'.op = "perform"
         /\ last'.args[1] \notin DOMAIN subscriptions )
       => ( /\ IsNotSubscribedError(last')
            /\ Mentions(last'.msg, last'.args[2])
            /\ Mentions(last'.msg, last'.args[1])
            /\ last'.prims = <<>>
            /\ last'.calls = <<>>
            /\ UNCHANGED maps )]_vars

\* perform failed on a name that was subscribed and has since been unsubscribed.
C5_Witness ==
    /\ last.op = "perform"
    /\ IsNotSubscribedError(last)
    /\ \E h \in 1..Len(handles) :
          handles[h].channelName = last.name /\ handles[h].released > 0

(* C6: constructed with connectImmediately = false and a valid url, the      *)
(* registry creates no consumer at construction, and the first subscribe     *)
(* makes the connection: it ends with a consumer in existence and the        *)
(* transport subscription registered.                                        *)
C6_LazyConnectAtFirstSubscribe ==
    [][/\ ( last'.op = "constructor" /\ ~options'.connectImmediately )
          => _cable' = NULL
       /\ ( /\ last.op = "constructor"
            /\ ~options.connectImmediately
            /\ options.connectionUrl = Str(ValidUrl)
            /\ options.jwt.t = "function"
            /\ last'.op = "subscribe" )
          => ( /\ last'.outcome = "ok"
               /\ _cable'.t = "consumer"
               /\ last'.name \in DOMAIN subscriptions' )]_vars

(* C7: constructed with connectImmediately = true and a valid url, the       *)
(* constructor ends without error having created the consumer with           *)
(* createConsumer(connectionUrl, jwt()), and a later subscribe does not fail *)
(* with NotInitializedError.                                                 *)
C7_EagerConnect ==
    ( /\ constructed
      /\ options.connectImmediately
      /\ options.connectionUrl = Str(ValidUrl)
      /\ options.jwt.t = "function" )
    => ( /\ last.op = "constructor" =>
              /\ last.outcome = "ok"
              /\ last.prims = <<Prim("createConsumer", 0, <<ValidUrl, options.jwt.v>>)>>
              /\ _cable = [t |-> "consumer", url |-> ValidUrl, token |-> options.jwt.v]
         /\ last.op = "subscribe" => ~IsNotInitializedError(last) )

NonEmptyString(x) == x.t = "string" /\ x.v # ""

\* The connection attempt of this step was refused: ConfigurationError, no
\* consumer created, _cable as it was.
ConnectRefused ==
    /\ IsConfigurationError(last')
    /\ last'.prims = <<>>
    /\ _cable' = _cable

\* A subscribe made while there is no consumer fails with NotInitializedError.
SubscribeNeedsConsumer ==
    ( last'.op = "subscribe" /\ _cable.t # "consumer" )
    => ( /\ IsNotInitializedError(last')
         /\ last'.prims = <<>>
         /\ UNCHANGED <<_cable, subscriptions>> )

(* C8 as stated: a connection attempt (here one that hands _connect a token  *)
(* function) made while connectionUrl is not a non-empty string (null,       *)
(* undefined, a non-string, or '') fails with ConfigurationError, creates no *)
(* consumer and leaves the registry as it was, so a subscribe without a      *)
(* consumer fails with NotInitializedError.                                  *)
C8_RejectsEveryNonUrl ==
    [][/\ ( /\ last'.op = "_connect"
            /\ last'.args[2].t = "function"
            /\ ~NonEmptyString(last'.args[1]) ) => ConnectRefused
       /\ SubscribeNeedsConsumer]_vars

(* C8, amended: a connection attempt made while connectionUrl is not a       *)
(* string (null, undefined, a non-string) fails with ConfigurationError,     *)
(* creates no consumer and leaves the registry as it was, so a subscribe     *)
(* without a consumer fails with NotInitializedError.                        *)
C8_RejectsNonStringUrl ==
    [][/\ ( last'.op = "_connect" /\ TypeOf(last'.args[1]) # "string" ) => ConnectRefused
       /\ SubscribeNeedsConsumer]_vars

\* A rejected connection attempt has left the registry without a consumer.
C8_Witness ==
    /\ last.op = "_connect"
    /\ TypeOf(last.args[1]) # "string"
    /\ IsConfigurationError(last)
    /\ _cable = NULL

(* C9: after unsubscribe(n) has completed, and for as long as n is not       *)
(* registered again (which only _addChannel(n) does), a notification of any  *)
(* kind from the transport subscription that was registered under n invokes  *)
(* no callback, raises no error and changes no map.                          *)
C9_NoDispatchAfterUnsubscribe ==
    [][/\ ( last'.op = "unsubscribe" /\ last'.outcome = "ok" )
          => last'.name \notin DOMAIN _channels'
       /\ \A n \in Names :
             ( n \notin DOMAIN _channels /\ n \in DOMAIN _channels' )
             => ( last'.op = "_addChannel" /\ last'.name = n )
       /\ ( /\ last'.op \in Kinds
            /\ handles[last'.h].released > 0
            /\ last'.name = handles[last'.h].channelName
            /\ last'.name \notin DOMAIN _channels )
          => ( /\ last'.calls = <<>>
               /\ last'.outcome = "ok"
               /\ UNCHANGED maps )]_vars

\* A notification arrived from a released subscription whose name is unregistered.
C9_Witness ==
    /\ last.op \in Kinds
    /\ handles[last.h].released > 0
    /\ last.name \notin DOMAIN _channels
    /\ last.calls = <<>>
    /\ last.outcome = "ok"

\* The registry key the documentation gives a subscribe(subscription, name).
DocumentedKey(subscription, name) ==
    IF name = UNDEFINED THEN subscription.channel ELSE name.v

Reachable == {subscriptions[n] : n \in DOMAIN subscriptions}

(* C11: with two logical names subscribed to the same server channel, a      *)
(* notification invokes callbacks only of the HandlerBundle registered under *)
(* the name of the subscription it came from, and perform on one name calls  *)
(* the perform primitive only of the handle registered under that name;      *)
(* neither changes any handle, HandlerBundle, subscription entry or          *)
(* ContextEntry.                                                             *)
C11_NamesAreIndependent ==
    [][/\ last'.op \in Kinds
          => ( /\ \A i \in 1..Len(last'.calls) :
                     /\ last'.calls[i].bundle._name = handles[last'.h].channelName
                     /\ last'.calls[i].bundle = _channels[handles[last'.h].channelName]
               /\ last'.prims = <<>>
               /\ UNCHANGED <<maps, handles>> )
       /\ ( last'.op = "perform" /\ last'.args[1] \in DOMAIN subscriptions )
          => ( /\ last'.outcome = "ok"
               /\ last'.prims = <<Prim("perform", subscriptions[last'.args[1]],
                                       <<last'.args[2], last'.args[3]>>)>>
               /\ last'.calls = <<>>
               /\ UNCHANGED <<maps, handles>> )]_vars

\* Both names are subscribed to the server channel 'ChatChannel' with their own
\* handles, and a notification of the one under 'a' reached the bundle under 'a'.
C11_Witness ==
    /\ DOMAIN subscriptions = {"ChatChannel", "a"}
    /\ subscriptions["a"] # subscriptions["ChatChannel"]
    /\ \A n \in DOMAIN subscriptions :
          handles[subscriptions[n]].descriptor.channel = "ChatChannel"
    /\ "ChatChannel" \in DOMAIN _channels
    /\ last.op \in Kinds
    /\ last.h = subscriptions["a"]
    /\ Len(last.calls) = 1
    /\ last.calls[1].bundle._name = "a"

(* C12: a second subscribe under a name that already has a subscription      *)
(* replaces the entry with the new handle and calls no unsubscribe           *)
(* primitive; the first handle is then held by no entry of the subscription  *)
(* map, and perform and unsubscribe on the name act on the handle the map    *)
(* holds, that is the second one.                                            *)
C12_SecondSubscribeReplaces ==
    [][/\ ( last'.op = "subscribe" /\ last'.outcome = "ok" )
          => ( /\ subscriptions'[last'.name] = last'.h
               /\ last'.h \notin Reachable
               /\ last'.prims = <<Prim("create", last'.h, <<last'.args[1]>>)>>
               /\ \A h \in 1..Len(handles) : handles'[h] = handles[h]
               /\ last'.name \in DOMAIN subscriptions
                  => ( /\ last'.replaced = subscriptions[last'.name]
                       /\ last'.replaced \notin
                             {subscriptions'[n] : n \in DOMAIN subscriptions'} ) )
       /\ ( last'.op \in {"perform", "unsubscribe"} /\ last'.prims # <<>> )
          => ( /\ Len(last'.prims) = 1
               /\ last'.prims[1].p = last'.op
               /\ last'.prims[1].h = subscriptions[last'.name]
               /\ \A h \in 1..Len(handles) :
                     h # subscriptions[last'.name] => handles'[h] = handles[h] )
       /\ \A h \in 1..Len(handles) :
             h \notin Reachable => ( h \notin {subscriptions'[n] : n \in DOMAIN subscriptions'}
                                     /\ handles'[h] = handles[h] )]_vars

\* An unsubscribe released the second handle of its name; the first one, which
\* the second subscribe replaced, has not been released.
C12_Witness ==
    /\ last.op = "unsubscribe"
    /\ last.outcome = "ok"
    /\ \E h \in 1..Len(handles) :
          /\ h < last.h
          /\ handles[h].channelName = last.name
          /\ handles[h].released = 0
          /\ handles[last.h].released = 1

\* The names component u has declared.
DeclaredBy(u) == {n \in Names : declared[<<u, n>>] # "no"}
\* users of the ContextEntry of u, 0 when there is none.
RefCount(ctxs, u) == IF u \in DOMAIN ctxs THEN ctxs[u].users ELSE 0

(* C13: a component that declares several channels has one ContextEntry,     *)
(* whose users count goes up by one with each declaration; each successful  *)
(* unsubscribe of a name the component declared lowers that count by exactly *)
(* one, and the entry is removed exactly when the count reaches zero.        *)
C13_OwnerRefCountFollowsUnsubscribes ==
    [][\A u \in Uids :
          /\ ( last'.op = "_addChannel" /\ last'.args[3] = u )
             => RefCount(_contexts', u) = RefCount(_contexts, u) + 1
          /\ ( /\ last'.op = "unsubscribe"
               /\ last'.outcome = "ok"
               /\ Cardinality(DeclaredBy(u)) >= 2
               /\ declared[<<u, last'.name>>] = "live" )
             => ( /\ RefCount(_contexts, u) >= 1
                  /\ RefCount(_contexts', u) = RefCount(_contexts, u) - 1 )]_vars

(* C14: a notification of kind k on a name that has a HandlerBundle invokes, *)
(* when the bundle defines a callback for k, that callback and no other,     *)
(* once, with the component whose uid tags the bundle as execution context   *)
(* and with the data as only argument exactly when k is received; when the   *)
(* bundle defines no callback for k, nothing is invoked.                     *)
C14_DispatchInvokesTheCallbackOnce ==
    [][( last'.op \in Kinds /\ last'.name \in DOMAIN _channels )
       => LET channel == _channels[last'.name] IN
          /\ last'.outcome = "ok"
          /\ IF last'.op \in channel.cbs
             THEN /\ Len(last'.calls) = 1
                  /\ last'.calls[1].bundle = channel
                  /\ last'.calls[1].kind = last'.op
                  /\ last'.calls[1].this = _contexts[channel._uid].context
                  /\ last'.calls[1].this = channel._uid
                  /\ last'.calls[1].args =
                        IF last'.op = "received" THEN last'.args ELSE <<>>
             ELSE last'.calls = <<>>]_vars

\* A received notification reached the received callback of a bundle, with the
\* data, while another bundle defines no callback for the kinds it could get.
C14_Witness ==
    /\ last.op = "received"
    /\ Len(last.calls) = 1
    /\ last.calls[1].args = <<"hi">>
    /\ last.calls[1].this = _channels[last.name]._uid
    /\ \E n \in DOMAIN _channels : "connected" \notin _channels[n].cbs

\* A notification of kind k for name n is forwarded to a callback.
Forwards(n, k) == n \in DOMAIN _channels /\ k \in _channels[n].cbs

(* C15: the registry keeps no connection state and validates no transition:  *)
(* a notification changes none of the three maps nor anything else the       *)
(* registry holds, and whether it is forwarded depends only on the bundle    *)
(* registered under its name, whatever notification the same subscription    *)
(* delivered before (or none) and whether the handle has been released.      *)
C15_EveryNotificationForwarded ==
    [][last'.op \in Kinds
       => ( /\ UNCHANGED <<constructed, options, _cable, _channels, subscriptions,
                           _contexts, handles, declared>>
            /\ Forwards(last'.name, last'.op) <=> last'.calls # <<>>
            /\ ( last.op \in Kinds /\ last.h = last'.h )
               => ( Forwards(last'.name, last'.op) => last'.calls # <<>> )
            /\ last'.outcome = "ok" )]_vars

\* A received notification was forwarded although its handle had already been
\* released by an unsubscribe: no transition is refused.
C15_Witness ==
    /\ last.op = "received"
    /\ last.calls # <<>>
    /\ handles[last.h].released >= 1
    /\ subscriptions = Empty

(* C16: every handle subscribe obtained is released exactly once: when every *)
(* logical name used has been unsubscribed, so that no subscription is       *)
(* registered any more, the unsubscribe primitive of each handle created has *)
(* been called exactly once.                                                 *)
C16_EveryHandleReleasedOnce ==
    /\ \A h \in 1..Len(handles) : handles[h].released <= 1
    /\ subscriptions = Empty
       => \A h \in 1..Len(handles) : handles[h].released = 1

C18_EveryBundleHasItsContext ==
    /\ \A n \in DOMAIN _channels :
          /\ _channels[n]._uid \in DOMAIN _contexts
          /\ _contexts[_channels[n]._uid].users >= 1
          /\ _contexts[_channels[n]._uid].context = _channels[n]._uid
    /\ last.op \in Kinds \cup {"unsubscribe"} => last.outcome # "TypeError" \/ last.prims = <<>>
    /\ last.op \in Kinds => last.outcome = "ok"

\* Two components declared the same name, one of them has been destroyed, and a
\* notification then reached a callback of a registered bundle in its context.
C18_Witness ==
    /\ \E n \in Names, u, v \in Uids :
          /\ declared[<<u, n>>] = "gone"
          /\ declared[<<v, n>>] = "live"
          /\ n \in DOMAIN _channels
          /\ last.name = n
    /\ last.op \in Kinds
    /\ Len(last.calls) = 1
    /\ last.calls[1].this \in DOMAIN _contexts

\* The handle the registry reaches under name n: 0 when there is none.
HandleOf(subs, n) == IF subs # UNDEFINED /\ n \in DOMAIN subs THEN subs[n] ELSE 0

(* C19: the bundle namespace and the subscription map do not interfere:      *)
(* declaring, subscribing or unsubscribing a channel whose logical name is   *)
(* 'subscriptions' leaves the handle and the bundle registered under every   *)
(* other name in place, and a perform on another name ends as it does        *)
(* otherwise, with the call of the handle's primitive or NotSubscribedError. *)
C19_ReservedNameDoesNotInterfere ==
    [][/\ ( /\ last'.op \in {"_addChannel", "subscribe", "unsubscribe"}
            /\ last'.name = Reserved )
          => \A n \in ReservedNames \ {Reserved} :
                /\ HandleOf(subscriptions', n) = HandleOf(subscriptions, n)
                /\ n \in DOMAIN _channels
                   => ( n \in DOMAIN _channels' /\ _channels'[n] = _channels[n] )
       /\ ( last'.op = "perform" /\ last'.name # Reserved )
          => \/ last'.outcome = "ok" /\ Len(last'.prims) = 1
             \/ IsNotSubscribedError(last') ]_vars

(* C20: a notification that invokes a callback of the bundle under a name    *)
(* comes from the handle the subscription map holds under that name: after a *)
(* second subscribe replaced the first handle of the name, a notification of *)
(* the first handle invokes no callback.                                     *)
C20_DispatchOnlyFromCurrentHandle ==
    ( last.op \in Kinds /\ last.calls # <<>> )
    => ( /\ last.name \in DOMAIN subscriptions
         /\ subscriptions[last.name] = last.h )

====
